---- MODULE Spec2Model ----
(***************************************************************************)
(* Model of the photostream virtualization engine of the web client:       *)
(*   PhotostreamManager        (PhotostreamManager.svelte.ts)              *)
(*   SearchResultsSegment      (paginated segment variant)                 *)
(* The manager owns an ordered list of segments (this.months), the         *)
(* viewport, the scroll offset and the layout tunables.  Segments load     *)
(* their items page by page from the search backend.                       *)
(*                                                                         *)
(* PhotostreamSegment (load / reload / layout / the base updateIntersection)*)
(* CancellableTask, updateGeometry and updateIntersectionMonthGroup are    *)
(* imported by the sources but are not part of them; they are modelled     *)
(* from the specification (sections 3, 4.2, 4.3, 4.4, 5 and 7).            *)
(* Nothing in the sources cancels a segment load, so segment loads are     *)
(* never cancelled in this model.                                          *)
(*                                                                         *)
(* Model of the chunked-upload flow of the server:                         *)
(*   AssetUploadService        (asset-upload.service.ts)                   *)
(*   AssetUploadController     (the tusd hook endpoint)                    *)
(* The repositories the service calls are its environment: a hook runs     *)
(* with at most one of its calls failing, and a removal started by         *)
(* tryUnlink settles after the hook has been answered.                     *)
(***************************************************************************)
EXTENDS Integers, Sequences, FiniteSets, TLC

\* ------------------------------------------------------------------ bounds
NumSegments == 2        \* segments owned by the manager
NumPages == 3           \* pages the backend holds for the first segment
MaxAssets == 3          \* longest list assigned to a SimplePhotostreamManager
MaxUsage == 12          \* hooks are followed while the usage stays below this
MaxRetries == 4         \* largest maxRetries handed to waitForTusd

\* ------------------------------------------------------- program constants
DefaultHeaderHeight == 48
DefaultRowHeight == 235
DefaultGap == 12
DefaultBottomSectionHeight == 60
InitialCount == 100
LayoutSpacing == 2
INTERSECTION_EXPAND_TOP == 500
INTERSECTION_EXPAND_BOTTOM == 500

\* ------------------------------------------------------------ input domains
Segments == 1..NumSegments
LayoutFields == {"headerHeight", "rowHeight", "gap"}
LayoutValues == {100}
\* a config names any subset of the three options; the others are omitted
LayoutConfigs == UNION {[D -> LayoutValues] : D \in SUBSET LayoutFields}
\* the configs the height specification draws from
HeaderConfigs == {cfg \in LayoutConfigs : DOMAIN cfg \subseteq {"headerHeight"} /\ \A f \in DOMAIN cfg : cfg[f] = 100}
ViewportWidths == {0, 300, 500}
ViewportHeights == {0, 400}
Viewports == [width : ViewportWidths, height : ViewportHeights]
\* the viewports the loading specification draws from
LoadViewports == {v \in Viewports : (v.width = 0) = (v.height = 0)}
ScrollOffsets == {0, 300}
TopSectionHeights == {0, 10}

\* SimplePhotostreamManager: the lists a host assigns, and the two arrays
\* that exist: the one $state([]) created and the one assigned last
SimpleAssetIds == {"a", "b", "c"}
SimpleAssetLists == UNION {[1..n -> SimpleAssetIds] : n \in 0..MaxAssets}
InitialArray == "initial"
ArrayRefs == {InitialArray, "assigned"}
SimpleIdentifiers == {"one", "other"}

\* page tokens are strings; null is the absent token
Null == "null"

\* upload service: the uploads tusd holds ("x" and "y" have the same content),
\* the folder of the user and the directories an upload may be stored in:
\* inside the folder, in a sibling folder whose name starts with the user's
\* folder name, and elsewhere.  Paths are sequences of characters.
UploadIds == {"x", "y"}
\* cryptoRepository.hashFile: the bytes of the checksum of an upload's file
ChecksumOf(id) == <<1, 2>>
\* the checksum header a client sends for that content, one character a byte
ChecksumHeader == <<"a", "b">>
ByteOf == [c \in {"a", "b"} |-> IF c = "a" THEN 1 ELSE 2]
UserFolder == <<"/", "u", "1">>
InsideDir == <<"/", "u", "1", "/", "a">>
SiblingDir == <<"/", "u", "1", "0", "/", "a">>
OutsideDir == <<"/", "u", "2", "/", "a">>
UploadDirs == {InsideDir, SiblingDir, OutsideDir}
UploadSizes == {4, 8}
\* quotaSizeInBytes of a user without a quota (null)
NullQuota == -1
QuotaSizes == {NullQuota, 10}
\* the base64 AssetData values a client sends: well-formed, not decodable,
\* well-formed but naming a file that is no asset
EncodedAssetData == {"good", "garbled", "notmedia"}
\* the one call a hook makes that fails, if any
Faults == {"none", "authenticate401", "authenticate", "hashFile", "utimes", "create",
           "getUploadAssetIdByChecksum", "updateUsage", "upsertExif", "queue"}
\* TusdHookRequestType and a type the controller does not handle
HookTypes == {"pre-create", "pre-finish", "post-finish"}
\* no hook has been answered yet
NoResponse == [RejectUpload |-> FALSE, StatusCode |-> 0, status |-> "none"]
TokenOf == <<"1", "2", "3", "4", "5", "6", "7", "8", "9">>
InitialPage == TokenOf[1]
\* unary plus on a page token (part_000 line 61)
toNumber(token) == CHOOSE p \in 1..Len(TokenOf) : TokenOf[p] = token

\* the backend: the first segment's query has NumPages pages, the others one
PagesOf(s) == IF s = 1 THEN NumPages ELSE 1
ItemsOnPage(p) == IF p = 1 THEN 2 ELSE 1
AssetId(s, p, k) == 100 * s + 10 * p + k
PageItems(s, p) == [k \in 1..ItemsOnPage(p) |-> AssetId(s, p, k)]
ElementsOf(q) == {q[i] : i \in 1..Len(q)}
searchAssets(s, p) ==
  [items |-> PageItems(s, p),
   nextPage |-> IF p < PagesOf(s) THEN TokenOf[p + 1] ELSE Null]
BackendIds ==
  UNION {UNION {ElementsOf(PageItems(s, p)) : p \in 1..PagesOf(s)} : s \in Segments}

VARIABLES
  headerHeight, rowHeight, gap,          \* #headerHeight, #rowHeight, #gap
  viewportWidth, viewportHeight,         \* #viewportWidth, #viewportHeight
  scrollTop,                             \* #scrollTop
  topSectionHeight, bottomSectionHeight,
  scrolling, suspendTransitions,         \* #scrolling, #suspendTransitions
  resetScrollingArmed,                   \* a call of #resetScrolling is pending
  resetSuspendTransitionsArmed,          \* a call of #resetSuspendTransitions is pending
  isInitialized,
  initTask,                              \* "idle", "loading" or "executed"
  waiting,                               \* updateViewport calls awaiting the init task
  months,                                \* the ordered segments and their state
  network,                               \* page requests in flight, in issue order
  nextPageLog,                           \* per segment: tokens fetched through loadNextPage
  simpleArrays,                          \* SimplePhotostreamManager: the arrays, by reference
  simpleAssets,                          \* SimplePhotostreamManager: the array #assets refers to
  simpleLoadState,                       \* SimplePhotostreamManager: load state of its segment
  assetRows,                             \* upload service: the asset rows of the user
  quotaUsageInBytes,                     \* upload service: the user's recorded usage
  files,                                 \* upload service: uploads whose file is on disk
  unlinking,                             \* upload service: tryUnlink calls not yet settled
  jobs,                                  \* upload service: queued AssetExtractMetadata jobs
  hookResponse,                          \* what the last hook handed back to tusd
  bootstrap,                             \* onBootstrap: its position and the loop counter
  attempts                               \* waitForTusd: outcome of each connection attempt

vars == <<headerHeight, rowHeight, gap, viewportWidth, viewportHeight, scrollTop,
          topSectionHeight, bottomSectionHeight, isInitialized, initTask, waiting,
          months, network, nextPageLog, simpleArrays, simpleAssets, simpleLoadState,
          scrolling, suspendTransitions, resetScrollingArmed, resetSuspendTransitionsArmed,
          assetRows, quotaUsageInBytes, files, unlinking, jobs, hookResponse,
          bootstrap, attempts>>

layoutVars == <<headerHeight, rowHeight, gap>>
viewVars == <<viewportWidth, viewportHeight, scrollTop>>
chromeVars == <<topSectionHeight, bottomSectionHeight>>
initVars == <<isInitialized, initTask, waiting>>
worldVars == <<months, network, nextPageLog>>
simpleVars == <<simpleArrays, simpleAssets, simpleLoadState>>
flagVars == <<scrolling, suspendTransitions, resetScrollingArmed, resetSuspendTransitionsArmed>>
uploadVars == <<assetRows, quotaUsageInBytes, files, unlinking, jobs, hookResponse>>
tusdVars == <<bootstrap, attempts>>
serverVars == <<assetRows, quotaUsageInBytes, files, unlinking, jobs, hookResponse,
                bootstrap, attempts>>
clientVars == <<headerHeight, rowHeight, gap, viewportWidth, viewportHeight, scrollTop,
                topSectionHeight, bottomSectionHeight, isInitialized, initTask, waiting,
                months, network, nextPageLog, simpleArrays, simpleAssets, simpleLoadState,
                scrolling, suspendTransitions, resetScrollingArmed,
                resetSuspendTransitionsArmed>>

\* ----------------------------------------------------------------- helpers
RECURSIVE SumSeq(_)
SumSeq(q) == IF q = <<>> THEN 0 ELSE q[1] + SumSeq(Tail(q))

RECURSIVE FilterSeq(_, _)
\* Array.prototype.filter with the predicate "element is in keep"
FilterSeq(q, keep) ==
  IF q = <<>> THEN <<>>
  ELSE (IF q[1] \in keep THEN <<q[1]>> ELSE <<>>) \o FilterSeq(Tail(q), keep)

Range(q) == {q[i] : i \in 1..Len(q)}
IsPrefix(p, q) == Len(p) <= Len(q) /\ \A i \in 1..Len(p) : p[i] = q[i]
CeilDiv(a, b) == (a + b - 1) \div b
Max(a, b) == IF a >= b THEN a ELSE b

\* the manager fields the geometry and intersection code reads
Manager ==
  [viewportWidth |-> viewportWidth, viewportHeight |-> viewportHeight,
   scrollTop |-> scrollTop, topSectionHeight |-> topSectionHeight,
   isInitialized |-> isInitialized,
   headerHeight |-> headerHeight, rowHeight |-> rowHeight, gap |-> gap,
   scrolling |-> scrolling, suspendTransitions |-> suspendTransitions,
   resetScrollingArmed |-> resetScrollingArmed,
   resetSuspendTransitionsArmed |-> resetSuspendTransitionsArmed]

World == [months |-> months, network |-> network, nextPageLog |-> nextPageLog]

\* ------------------------------------------------- geometry (layout support)
\* items of one row when every item is scaled to the row height
perRow(m) == Max(1, m.viewportWidth \div m.rowHeight)

\* height of a segment holding n items: header plus packed rows
layoutHeight(n, m) ==
  LET rows == CeilDiv(n, perRow(m))
  IN m.headerHeight + rows * m.rowHeight + Max(0, rows - 1) * LayoutSpacing

\* segment.layout(): geometry from the items held, or from the expected
\* count while nothing has been loaded
layout(seg, m) ==
  LET n == IF seg.viewerAssets = <<>> /\ seg.loadState # "Loaded"
           THEN InitialCount ELSE Len(seg.viewerAssets)
  IN [seg EXCEPT !.height = layoutHeight(n, m), !.isHeightActual = TRUE]

updateGeometry(seg, invalidateHeight, m) ==
  IF invalidateHeight \/ ~seg.isHeightActual THEN layout(seg, m) ELSE seg

updateGeometryAll(ms, invalidateHeight, m) ==
  [s \in Segments |-> updateGeometry(ms[s], invalidateHeight, m)]

\* months.reduce((accumulator, b) => accumulator + b.height, 0)
RECURSIVE reduceHeight(_, _, _)
reduceHeight(ms, i, accumulator) ==
  IF i > NumSegments THEN accumulator
  ELSE reduceHeight(ms, i + 1, accumulator + ms[i].height)

\* mutation: the header chrome is left out of the derived height
timelineHeightOfNoTop(ms, top) == reduceHeight(ms, 1, 0)

timelineHeightOf(ms, top) == reduceHeight(ms, 1, 0) + top

timelineHeight == timelineHeightOf(months, topSectionHeight)

visibleWindowOf(m) == [top |-> m.scrollTop, bottom |-> m.scrollTop + m.viewportHeight]

visibleWindow == visibleWindowOf(Manager)

getMaxScroll ==
  topSectionHeight + bottomSectionHeight + (timelineHeight - viewportHeight)

\* offset of segment i: the header chrome plus the segments before it
segmentTop(ms, i, m) == m.topSectionHeight + SumSeq([j \in 1..(i - 1) |-> ms[j].height])

\* ------------------------------------------------ segment load state machine
isLoaded(seg) == seg.loadState = "Loaded"
loaderExecuted(seg) == seg.loadState = "Loaded"

\* the synchronous part of SearchResultsSegment.fetch: one page request
fetch(W, s) ==
  LET seg == W.months[s]
  IN IF seg.currentPage = Null
     THEN [W EXCEPT !.months[s].loadState = "Loaded"]
     ELSE [W EXCEPT !.months[s].loadState = "Loading",
                    !.network = Append(@, [seg |-> s, page |-> toNumber(seg.currentPage)])]

\* segment.load(cancelable): a no-op while Loading or after Loaded
load(W, s) ==
  IF W.months[s].loadState \in {"Loading", "Loaded"} THEN W ELSE fetch(W, s)

\* segment.reload(cancelable): reset the load task, then load; a reload that
\* finds a load in flight joins it
reload(W, s) ==
  IF W.months[s].loadState = "Loading" THEN W
  ELSE load([W EXCEPT !.months[s].loadState = "NotLoaded"], s)

\* mutation: no check that the next page differs from the current one
loadNextPageNoGuard(W, s) ==
  LET seg == W.months[s]
  IN IF seg.nextPage # Null
     THEN LET W1 == [W EXCEPT !.months[s].currentPage = seg.nextPage]
              W2 == reload(W1, s)
          IN IF Len(W2.network) > Len(W1.network)
             THEN [W2 EXCEPT !.nextPageLog[s] = Append(@, seg.nextPage)]
             ELSE W2
     ELSE W

\* mutation: the current page is not advanced to the next page
loadNextPageSamePage(W, s) ==
  LET seg == W.months[s]
  IN IF seg.nextPage # Null
     THEN LET W2 == reload(W, s)
          IN IF Len(W2.network) > Len(W.network)
             THEN [W2 EXCEPT !.nextPageLog[s] = Append(@, seg.nextPage)]
             ELSE W2
     ELSE W

loadNextPage(W, s) ==
  LET seg == W.months[s]
  IN IF seg.nextPage # Null
     THEN IF seg.currentPage = seg.nextPage
          THEN W
          ELSE LET W1 == [W EXCEPT !.months[s].currentPage = seg.nextPage]
                   W2 == reload(W1, s)
               IN IF Len(W2.network) > Len(W1.network)
                  THEN [W2 EXCEPT !.nextPageLog[s] = Append(@, seg.nextPage)]
                  ELSE W2
     ELSE W

\* ------------------------------------------------------------ intersections
overlaps(top, bottom, windowTop, windowBottom) ==
  top < windowBottom /\ bottom > windowTop

\* PhotostreamSegment.updateIntersection: record the flags; a segment whose
\* intersecting flag turns true is told to load
baseUpdateIntersection(W, s, flags) ==
  LET was == W.months[s].intersecting
      W1 == [W EXCEPT !.months[s].intersecting = flags.intersecting,
                      !.months[s].actuallyIntersecting = flags.actuallyIntersecting]
  IN IF flags.intersecting /\ ~was THEN load(W1, s) ELSE W1

\* mutation: the distance is taken from the top of the visible window
nearBottomFromTop(W, m) ==
  timelineHeightOf(W.months, m.topSectionHeight) - visibleWindowOf(m).top
    < INTERSECTION_EXPAND_BOTTOM

nearBottom(W, m) ==
  timelineHeightOf(W.months, m.topSectionHeight) - visibleWindowOf(m).bottom
    < INTERSECTION_EXPAND_BOTTOM

\* SearchResultsSegment.updateIntersection
updateIntersection(W, s, flags, m) ==
  LET W1 == baseUpdateIntersection(W, s, flags)
  IN IF nearBottom(W1, m) THEN loadNextPage(W1, s) ELSE W1

updateIntersectionMonthGroup(W, s, m) ==
  LET top == segmentTop(W.months, s, m)
      bottom == top + W.months[s].height
      window == visibleWindowOf(m)
      flags == [intersecting |-> overlaps(top, bottom, window.top - INTERSECTION_EXPAND_TOP,
                                          window.bottom + INTERSECTION_EXPAND_BOTTOM),
                actuallyIntersecting |-> overlaps(top, bottom, window.top, window.bottom)]
  IN updateIntersection(W, s, flags, m)

RECURSIVE scanFrom(_, _, _)
scanFrom(W, s, m) ==
  IF s > NumSegments THEN W
  ELSE scanFrom(updateIntersectionMonthGroup(W, s, m), s + 1, m)

updateIntersections(W, m) ==
  IF ~m.isInitialized \/ visibleWindowOf(m).bottom = visibleWindowOf(m).top
  THEN W
  ELSE scanFrom(W, 1, m)

\* a scan as its caller and its callbacks see it: the world, the
\* #updatingIntersections flag, the segments visited so far, the scans active
\* now and the most that were active at once
ScanState(W) == [W |-> W, updating |-> FALSE, visits |-> 0, active |-> 0, maxActive |-> 0]

RECURSIVE updateIntersectionsNoFlag(_, _, _)
RECURSIVE updateIntersectionsScan(_, _, _)
RECURSIVE scanMonths(_, _, _, _)

\* mutation: the busy flag is not tested
updateIntersectionsNoFlag(sc, m, reenter) ==
  IF ~m.isInitialized \/ visibleWindowOf(m).bottom = visibleWindowOf(m).top
  THEN sc
  ELSE LET sc1 == [sc EXCEPT !.updating = TRUE, !.active = @ + 1,
                             !.maxActive = Max(@, sc.active + 1)]
           sc2 == scanMonths(sc1, 1, m, reenter)
       IN [sc2 EXCEPT !.updating = FALSE, !.active = @ - 1]

\* updateIntersections() with its busy flag; the updateIntersection
\* callbacks of the segments in reenter call updateIntersections() again
updateIntersectionsScan(sc, m, reenter) ==
  IF sc.updating \/ ~m.isInitialized \/ visibleWindowOf(m).bottom = visibleWindowOf(m).top
  THEN sc
  ELSE LET sc1 == [sc EXCEPT !.updating = TRUE, !.active = @ + 1,
                             !.maxActive = Max(@, sc.active + 1)]
           sc2 == scanMonths(sc1, 1, m, reenter)
       IN [sc2 EXCEPT !.updating = FALSE, !.active = @ - 1]

\* for (const month of this.months) updateIntersectionMonthGroup(this, month)
scanMonths(sc, s, m, reenter) ==
  IF s > NumSegments THEN sc
  ELSE LET sc1 == [sc EXCEPT !.W = updateIntersectionMonthGroup(@, s, m), !.visits = @ + 1]
           sc2 == IF s \in reenter
                  THEN updateIntersectionsScan(sc1, m, reenter \ {s})
                  ELSE sc1
       IN scanMonths(sc2, s + 1, m, reenter)

updateViewportGeometry(W, changedWidth, m) ==
  IF ~m.isInitialized THEN W
  ELSE IF m.viewportWidth = 0 \/ m.viewportHeight = 0 THEN W
  ELSE updateIntersections(
         [W EXCEPT !.months = updateGeometryAll(@, changedWidth, m)], m)

refreshLayout(W, m) ==
  updateIntersections([W EXCEPT !.months = updateGeometryAll(@, TRUE, m)], m)

\* ------------------------------------------------------------------- state
InitialSegment ==
  [viewerAssets |-> <<>>, currentPage |-> InitialPage, nextPage |-> Null,
   loadState |-> "NotLoaded", awaited |-> FALSE,
   intersecting |-> FALSE, actuallyIntersecting |-> FALSE,
   height |-> 0, isHeightActual |-> FALSE]

Init ==
  /\ headerHeight = DefaultHeaderHeight
  /\ rowHeight = DefaultRowHeight
  /\ gap = DefaultGap
  /\ viewportWidth = 0
  /\ viewportHeight = 0
  /\ scrollTop = 0
  /\ topSectionHeight = 0
  /\ bottomSectionHeight = DefaultBottomSectionHeight
  /\ isInitialized = FALSE
  /\ initTask = "idle"
  /\ waiting = {}
  /\ months = [s \in Segments |-> InitialSegment]
  /\ network = <<>>
  /\ nextPageLog = [s \in Segments |-> <<>>]
  /\ simpleArrays = [ref \in ArrayRefs |-> <<>>]
  /\ simpleAssets = InitialArray
  /\ simpleLoadState = "NotLoaded"
  /\ scrolling = FALSE
  /\ suspendTransitions = FALSE
  /\ resetScrollingArmed = FALSE
  /\ resetSuspendTransitionsArmed = FALSE
  /\ assetRows = {}
  /\ quotaUsageInBytes = 0
  /\ files = {}
  /\ unlinking = {}
  /\ jobs = {}
  /\ hookResponse = NoResponse
  /\ bootstrap = [pc |-> "idle", i |-> 0, maxRetries |-> 0]
  /\ attempts = <<>>

\* the world W becomes the state (W is bound once, so it is computed once)
SetWorld(W) ==
  \E world \in {W} :
    /\ months' = world.months
    /\ network' = world.network
    /\ nextPageLog' = world.nextPageLog

\* ------------------------------------------------------- setLayoutOptions
\* destructuring default of an omitted option
optionOr(cfg, field, default) == IF field \in DOMAIN cfg THEN cfg[field] ELSE default

\* #setHeaderHeight / #setGap / #setRowHeight: assign unless equal
setTunable(current, value) ==
  IF current = value THEN [changed |-> FALSE, value |-> current]
  ELSE [changed |-> TRUE, value |-> value]

\* mutation: changed = setter(value), the result of the last setter
orAssignLast(changed, current, value) == setTunable(current, value)

\* changed ||= setter(value): the setter runs only while changed is false
orAssign(changed, current, value) ==
  IF changed THEN [changed |-> TRUE, value |-> current] ELSE setTunable(current, value)

\* the whole call on manager fields st.m and world st.W; refreshed tells
\* whether refreshLayout was called
setLayoutOptionsRun(st, cfg) ==
  LET h == orAssign(FALSE, st.m.headerHeight, optionOr(cfg, "headerHeight", DefaultHeaderHeight))
      g == orAssign(h.changed, st.m.gap, optionOr(cfg, "gap", DefaultGap))
      r == orAssign(g.changed, st.m.rowHeight, optionOr(cfg, "rowHeight", DefaultRowHeight))
      m == [st.m EXCEPT !.headerHeight = h.value, !.gap = g.value, !.rowHeight = r.value]
  IN [m |-> m,
      W |-> IF r.changed THEN refreshLayout(st.W, m) ELSE st.W,
      refreshed |-> r.changed]

setLayoutOptions(cfg) ==
  \E run \in {setLayoutOptionsRun([m |-> Manager, W |-> World], cfg)} :
     /\ headerHeight' = run.m.headerHeight
     /\ gap' = run.m.gap
     /\ rowHeight' = run.m.rowHeight
     /\ SetWorld(run.W)
     /\ UNCHANGED <<flagVars, viewVars, chromeVars, serverVars, simpleVars, initVars>>

\* ---------------------------------------------------------- scroll, viewport
\* mutation: the offset is stored without a scan
updateSlidingWindowRunNoScan(st, offset) ==
  IF st.m.scrollTop # offset
  THEN [m |-> [st.m EXCEPT !.scrollTop = offset], W |-> st.W]
  ELSE st

updateSlidingWindowRun(st, offset) ==
  IF st.m.scrollTop # offset
  THEN LET m == [st.m EXCEPT !.scrollTop = offset]
       IN [m |-> m, W |-> updateIntersections(st.W, m)]
  ELSE st

updateSlidingWindow(offset) ==
  \E st \in {updateSlidingWindowRun([m |-> Manager, W |-> World], offset)} :
     /\ scrollTop' = st.m.scrollTop
     /\ SetWorld(st.W)
     /\ UNCHANGED <<flagVars, layoutVars, viewportWidth, viewportHeight, chromeVars, serverVars, simpleVars, initVars>>

\* set suspendTransitions(value) on the manager fields m: a true value
\* calls the debounced #resetSuspendTransitions, which (re)arms its timer
setSuspendTransitionsOf(m, value) ==
  [m EXCEPT !.suspendTransitions = value,
            !.resetSuspendTransitionsArmed = IF value THEN TRUE ELSE @]

\* set scrolling(value) on the manager fields m
setScrollingOf(m, value) ==
  IF value
  THEN [setSuspendTransitionsOf([m EXCEPT !.scrolling = TRUE], TRUE)
          EXCEPT !.resetScrollingArmed = TRUE]
  ELSE [m EXCEPT !.scrolling = FALSE]

\* set viewportHeight(value): #suspendTransitions is written directly
setViewportHeight(st, value) ==
  LET m == [st.m EXCEPT !.viewportHeight = value, !.suspendTransitions = TRUE]
  IN [m |-> m, W |-> updateViewportGeometry(st.W, FALSE, m)]

\* set viewportWidth(value): suspendTransitions is written through its setter
setViewportWidth(st, value) ==
  LET changed == value # st.m.viewportWidth
      m == setSuspendTransitionsOf([st.m EXCEPT !.viewportWidth = value], TRUE)
  IN [m |-> m, W |-> updateViewportGeometry(st.W, changed, m)]

\* the flag fields of m become the state
SetFlags(m) ==
  /\ scrolling' = m.scrolling
  /\ suspendTransitions' = m.suspendTransitions
  /\ resetScrollingArmed' = m.resetScrollingArmed
  /\ resetSuspendTransitionsArmed' = m.resetSuspendTransitionsArmed

\* the host assigns manager.scrolling
setScrolling(value) ==
  /\ SetFlags(setScrollingOf(Manager, value))
  /\ UNCHANGED <<layoutVars, viewVars, chromeVars, serverVars, initVars, worldVars, simpleVars>>

\* the host assigns manager.suspendTransitions
setSuspendTransitions(value) ==
  /\ SetFlags(setSuspendTransitionsOf(Manager, value))
  /\ UNCHANGED <<layoutVars, viewVars, chromeVars, serverVars, initVars, worldVars, simpleVars>>

\* the host assigns manager.viewportHeight
assignViewportHeight(value) ==
  \E st \in {setViewportHeight([m |-> Manager, W |-> World], value)} :
     /\ viewportHeight' = st.m.viewportHeight
     /\ SetFlags(st.m)
     /\ SetWorld(st.W)
     /\ UNCHANGED <<layoutVars, viewportWidth, scrollTop, chromeVars, serverVars, initVars, simpleVars>>

\* the host assigns manager.viewportWidth
assignViewportWidth(value) ==
  \E st \in {setViewportWidth([m |-> Manager, W |-> World], value)} :
     /\ viewportWidth' = st.m.viewportWidth
     /\ SetFlags(st.m)
     /\ SetWorld(st.W)
     /\ UNCHANGED <<layoutVars, viewportHeight, scrollTop, chromeVars, serverVars, initVars, simpleVars>>

\* the timer of #resetScrolling expires: this.#scrolling = false
resetScrollingFires ==
  /\ resetScrollingArmed
  /\ resetScrollingArmed' = FALSE
  /\ scrolling' = FALSE
  /\ UNCHANGED <<suspendTransitions, resetSuspendTransitionsArmed>>
  /\ UNCHANGED <<layoutVars, viewVars, chromeVars, serverVars, initVars, worldVars, simpleVars>>

\* the timer of #resetSuspendTransitions expires: this.suspendTransitions = false
resetSuspendTransitionsFires ==
  /\ resetSuspendTransitionsArmed
  /\ SetFlags(setSuspendTransitionsOf(
                [Manager EXCEPT !.resetSuspendTransitionsArmed = FALSE], FALSE))
  /\ UNCHANGED <<layoutVars, viewVars, chromeVars, serverVars, initVars, worldVars, simpleVars>>

\* updateViewport after the init task has executed (lines 187-190)
applyViewportRun(st, viewport) ==
  LET changedWidth == viewport.width # st.m.viewportWidth
      st1 == setViewportHeight(st, viewport.height)
      st2 == setViewportWidth(st1, viewport.width)
  IN [m |-> st2.m, W |-> updateViewportGeometry(st2.W, changedWidth, st2.m)]

applyViewport(viewport) ==
  \E st \in {applyViewportRun([m |-> Manager, W |-> World], viewport)} :
     /\ viewportHeight' = st.m.viewportHeight
     /\ viewportWidth' = st.m.viewportWidth
     /\ SetFlags(st.m)
     /\ SetWorld(st.W)

\* updateViewport on a manager whose init task has executed: the two early
\* returns (lines 175-181), then lines 187-190
updateViewportRun(st, viewport) ==
  IF viewport.height = 0 /\ viewport.width = 0 THEN st
  ELSE IF st.m.viewportHeight = viewport.height /\ st.m.viewportWidth = viewport.width THEN st
  ELSE applyViewportRun(st, viewport)

\* mutation: the call does not await the init task it finds not executed
updateViewportNoAwait(viewport) ==
  /\ ~(viewport.height = 0 /\ viewport.width = 0)
  /\ ~(viewportHeight = viewport.height /\ viewportWidth = viewport.width)
  /\ applyViewport(viewport)
  /\ IF initTask = "idle"
     THEN isInitialized' = FALSE /\ initTask' = "loading"
     ELSE UNCHANGED <<isInitialized, initTask>>
  /\ UNCHANGED <<layoutVars, chromeVars, serverVars, simpleVars, scrollTop, waiting>>

updateViewport(viewport) ==
  /\ ~(viewport.height = 0 /\ viewport.width = 0)
  /\ ~(viewportHeight = viewport.height /\ viewportWidth = viewport.width)
  /\ IF initTask = "executed"
     THEN /\ applyViewport(viewport)
          /\ UNCHANGED <<initVars, scrollTop>>
     ELSE /\ waiting' = waiting \cup {viewport}
          /\ IF initTask = "loading"
             THEN UNCHANGED <<isInitialized, initTask>>
             ELSE \* init(): isInitialized = false, then execute the init task
                  /\ isInitialized' = FALSE
                  /\ initTask' = "loading"
          /\ UNCHANGED <<viewVars, flagVars, worldVars>>
  /\ UNCHANGED <<layoutVars, chromeVars, serverVars, simpleVars>>

\* the init task settles: loadedCallback sets isInitialized
\* the lifecycle fields: isInitialized and the state of the init task
Lifecycle == [isInitialized |-> isInitialized, initTask |-> initTask]

\* the init task executes and runs its loaded callback
initTaskSettles(life) == [life EXCEPT !.initTask = "executed", !.isInitialized = TRUE]

\* destroy(): isInitialized = false; the init task is left as it is
destroyRun(life) == [life EXCEPT !.isInitialized = FALSE]

initComplete ==
  /\ initTask = "loading"
  /\ initTask' = initTaskSettles(Lifecycle).initTask
  /\ isInitialized' = initTaskSettles(Lifecycle).isInitialized
  /\ UNCHANGED <<flagVars, layoutVars, viewVars, chromeVars, serverVars, simpleVars, waiting, worldVars>>

\* an updateViewport call resumes after its await
resumeUpdateViewport(viewport) ==
  /\ initTask = "executed"
  /\ viewport \in waiting
  /\ waiting' = waiting \ {viewport}
  /\ applyViewport(viewport)
  /\ UNCHANGED <<layoutVars, scrollTop, chromeVars, serverVars, simpleVars, isInitialized, initTask>>

destroy ==
  /\ isInitialized' = destroyRun(Lifecycle).isInitialized
  /\ initTask' = destroyRun(Lifecycle).initTask
  /\ UNCHANGED <<flagVars, layoutVars, viewVars, chromeVars, serverVars, simpleVars, waiting, worldVars>>

\* the host writes the public topSectionHeight field
setTopSectionHeight(value) ==
  /\ topSectionHeight' = value
  /\ UNCHANGED <<flagVars, layoutVars, viewVars, bottomSectionHeight, serverVars, simpleVars, initVars, worldVars>>

\* ------------------------------------------------------------ segment loads
\* months.find((segment) => identifier.matches(segment)); identifier i is the
\* search-terms predicate of segment i, identifier 0 matches no segment
getSegmentByIdentifier(identifier) ==
  IF identifier \in Segments THEN identifier ELSE 0

\* mutation: the segment's fetch is started directly instead of through load()
loadSegmentFetchesDirectly(identifier, cancelable) ==
  LET s == getSegmentByIdentifier(identifier)
  IN /\ IF s = 0 THEN UNCHANGED worldVars
        ELSE IF loaderExecuted(months[s]) THEN UNCHANGED worldVars
        ELSE SetWorld([fetch(World, s) EXCEPT !.months[s].awaited = TRUE])
     /\ UNCHANGED <<flagVars, layoutVars, viewVars, chromeVars, serverVars, simpleVars, initVars>>

loadSegment(identifier, cancelable) ==
  LET s == getSegmentByIdentifier(identifier)
  IN /\ IF s = 0 THEN UNCHANGED worldVars
        ELSE IF loaderExecuted(months[s]) THEN UNCHANGED worldVars
        ELSE LET W1 == load(World, s)
                 started == Len(W1.network) > Len(network)
             IN SetWorld([W1 EXCEPT !.months[s].awaited = @ \/ started])
     /\ UNCHANGED <<flagVars, layoutVars, viewVars, chromeVars, serverVars, simpleVars, initVars>>

RemoveAt(q, i) == [j \in 1..(Len(q) - 1) |-> IF j < i THEN q[j] ELSE q[j + 1]]

\* mutation: the page replaces the items held
pushItemsReplaces(viewerAssets, items) == items

\* this.#viewerAssets.push(...items)
pushItems(viewerAssets, items) == viewerAssets \o items

\* the page request answers: the rest of fetch (lines 68-71), the load task
\* executes, and a loadSegment caller that started the load rescans the segment
\* a response is delivered as a task of its own: the promise jobs of the init
\* task and of the updateViewport calls awaiting it have run by then
microtasksDone == initTask # "loading" /\ waiting = {}

fetchSuccess(i) ==
  LET request == network[i]
      s == request.seg
      assets == searchAssets(s, request.page)
      seg1 == [months[s] EXCEPT !.nextPage = assets.nextPage,
                                !.viewerAssets = pushItems(@, assets.items)]
      seg2 == [layout(seg1, Manager) EXCEPT !.loadState = "Loaded", !.awaited = FALSE]
      W1 == [World EXCEPT !.months[s] = seg2, !.network = RemoveAt(network, i)]
  IN /\ microtasksDone
     /\ SetWorld(IF months[s].awaited
                 THEN updateIntersectionMonthGroup(W1, s, Manager)
                 ELSE W1)
     /\ UNCHANGED <<flagVars, layoutVars, viewVars, chromeVars, serverVars, simpleVars, initVars>>

\* the page request throws: nothing of lines 68-71 runs, the load task fails
fetchFailure(i) ==
  LET s == network[i].seg
  IN /\ microtasksDone
     /\ SetWorld([World EXCEPT !.months[s].loadState = "Failed",
                               !.months[s].awaited = FALSE,
                               !.network = RemoveAt(network, i)])
     /\ UNCHANGED <<flagVars, layoutVars, viewVars, chromeVars, serverVars, simpleVars, initVars>>

callLoadNextPage(s) ==
  /\ SetWorld(loadNextPage(World, s))
  /\ UNCHANGED <<flagVars, layoutVars, viewVars, chromeVars, serverVars, simpleVars, initVars>>

callUpdateIntersections ==
  /\ \E reenter \in SUBSET Segments :
       SetWorld(updateIntersectionsScan(ScanState(World), Manager, reenter).W)
  /\ UNCHANGED <<flagVars, layoutVars, viewVars, chromeVars, serverVars, simpleVars, initVars>>

callRefreshLayout ==
  /\ SetWorld(refreshLayout(World, Manager))
  /\ UNCHANGED <<flagVars, layoutVars, viewVars, chromeVars, serverVars, simpleVars, initVars>>

\* ------------------------------------------------------ retrieveLoadedRange
RECURSIVE rangeOverAssetsEndFirst(_, _, _, _, _)
\* mutation: the end test runs before the push, so the end item is left out
rangeOverAssetsEndFirst(assets, i, st, startId, endId) ==
  IF i > Len(assets) THEN st
  ELSE LET collecting == st.collecting \/ assets[i] = startId
       IN IF assets[i] = endId
          THEN [range |-> st.range, collecting |-> collecting, returned |-> TRUE]
          ELSE rangeOverAssetsEndFirst(assets, i + 1,
                 [range |-> IF collecting THEN Append(st.range, assets[i]) ELSE st.range,
                  collecting |-> collecting, returned |-> FALSE],
                 startId, endId)

RECURSIVE rangeOverAssets(_, _, _, _, _)
\* the inner loop over month.assets; st = [range, collecting, returned]
rangeOverAssets(assets, i, st, startId, endId) ==
  IF i > Len(assets) THEN st
  ELSE LET collecting == st.collecting \/ assets[i] = startId
           range == IF collecting THEN Append(st.range, assets[i]) ELSE st.range
       IN IF assets[i] = endId
          THEN [range |-> range, collecting |-> collecting, returned |-> TRUE]
          ELSE rangeOverAssets(assets, i + 1,
                 [range |-> range, collecting |-> collecting, returned |-> FALSE],
                 startId, endId)

RECURSIVE rangeOverMonths(_, _, _, _, _)
rangeOverMonths(ms, s, st, startId, endId) ==
  IF s > NumSegments THEN st.range
  ELSE IF st.collecting /\ ~isLoaded(ms[s]) THEN <<>>
  ELSE LET st1 == rangeOverAssets(ms[s].viewerAssets, 1, st, startId, endId)
       IN IF st1.returned THEN st1.range
          ELSE rangeOverMonths(ms, s + 1, st1, startId, endId)

retrieveLoadedRange(ms, startId, endId) ==
  rangeOverMonths(ms, 1, [range |-> <<>>, collecting |-> FALSE, returned |-> FALSE],
                  startId, endId)

\* ------------------------------------------------------------- removeAssets
RECURSIVE spliceMatchingUnrecorded(_, _, _, _)
\* mutation: the id is spliced out but not recorded as removed
spliceMatchingUnrecorded(viewerAssets, i, assetIdSet, removedIds) ==
  IF i = 0 THEN [viewerAssets |-> viewerAssets, removedIds |-> removedIds]
  ELSE IF viewerAssets[i] \in assetIdSet
       THEN spliceMatchingUnrecorded(RemoveAt(viewerAssets, i), i - 1, assetIdSet, removedIds)
       ELSE spliceMatchingUnrecorded(viewerAssets, i - 1, assetIdSet, removedIds)

RECURSIVE spliceMatching(_, _, _, _)
\* for (i = length - 1; i >= 0; i--): push the id and splice it out
spliceMatching(viewerAssets, i, assetIdSet, removedIds) ==
  IF i = 0 THEN [viewerAssets |-> viewerAssets, removedIds |-> removedIds]
  ELSE IF viewerAssets[i] \in assetIdSet
       THEN spliceMatching(RemoveAt(viewerAssets, i), i - 1, assetIdSet,
                           Append(removedIds, viewerAssets[i]))
       ELSE spliceMatching(viewerAssets, i - 1, assetIdSet, removedIds)

RECURSIVE removeFromMonths(_, _, _, _)
\* the loop over this.months; acc = [months, removedIds, laidOut]
removeFromMonths(acc, s, assetIdSet, m) ==
  IF s > NumSegments THEN acc
  ELSE LET r == spliceMatching(acc.months[s].viewerAssets, Len(acc.months[s].viewerAssets),
                               assetIdSet, acc.removedIds)
           seg1 == [acc.months[s] EXCEPT !.viewerAssets = r.viewerAssets]
           relaid == Len(r.removedIds) > 0
           seg2 == IF relaid THEN layout(seg1, m) ELSE seg1
       IN removeFromMonths([months |-> [acc.months EXCEPT ![s] = seg2],
                            removedIds |-> r.removedIds,
                            laidOut |-> IF relaid THEN acc.laidOut \cup {s} ELSE acc.laidOut],
                           s + 1, assetIdSet, m)

\* the whole call: W is the state it leaves, result the list it returns
removeAssetsRun(W, assetIds, m) ==
  LET acc == removeFromMonths([months |-> W.months, removedIds |-> <<>>, laidOut |-> {}],
                              1, Range(assetIds), m)
      W1 == [W EXCEPT !.months = acc.months]
  IN [W |-> IF Len(acc.removedIds) > 0 THEN updateViewportGeometry(W1, FALSE, m) ELSE W1,
      removedIds |-> acc.removedIds,
      laidOut |-> acc.laidOut,
      result |-> FilterSeq(assetIds, Range(assetIds) \ Range(acc.removedIds))]

removeAssets(assetIds) ==
  /\ SetWorld(removeAssetsRun(World, assetIds, Manager).W)
  /\ UNCHANGED <<flagVars, layoutVars, viewVars, chromeVars, serverVars, simpleVars, initVars>>

\* ids handed to removeAssets: up to two of the backend's ids or an unknown id
UnknownId == AssetId(0, 0, 0)
RemovableIds == {AssetId(1, 1, 2), AssetId(NumSegments, 1, 1), UnknownId}
RemoveInputs == {<<>>} \cup {<<a>> : a \in RemovableIds}
                  \cup {<<a, b>> : a \in RemovableIds, b \in RemovableIds}

\* -------------------------------------------------- SimplePhotostreamManager
\* the array createSimpleSegment was called with: the constructor passes the
\* value #assets has at construction
CapturedArray == InitialArray

\* assets.map((asset) => new ViewerAsset(this, asset)) over the captured array
simpleViewerAssets ==
  [i \in 1..Len(simpleArrays[CapturedArray]) |->
     [segment |-> "one", asset |-> simpleArrays[CapturedArray][i]]]

\* the segment created by createSimpleSegment
simpleSegment ==
  [id |-> "one", viewerAssets |-> simpleViewerAssets, loadState |-> simpleLoadState]

\* identifier.matches: () => true
simpleMatches(identifier, segment) == TRUE

\* get months()
simpleMonths == <<simpleSegment>>

\* set assets(assets): the field refers to the array given
setAssets(assets) ==
  /\ simpleArrays' = [simpleArrays EXCEPT !["assigned"] = assets]
  /\ simpleAssets' = "assigned"
  /\ UNCHANGED <<flagVars, layoutVars, viewVars, chromeVars, serverVars, initVars, worldVars, simpleLoadState>>

\* loadSegment on the simple manager: every identifier finds the segment
simpleLoadSegment(identifier) ==
  /\ \E i \in 1..Len(simpleMonths) : simpleMatches(identifier, simpleMonths[i])
  /\ simpleLoadState' = IF simpleLoadState = "NotLoaded" THEN "Loading" ELSE simpleLoadState
  /\ UNCHANGED <<flagVars, layoutVars, viewVars, chromeVars, serverVars, initVars, worldVars, simpleArrays, simpleAssets>>

\* fetch(): Promise.resolve(), the load task executes
simpleFetchResolves ==
  /\ simpleLoadState = "Loading"
  /\ simpleLoadState' = "Loaded"
  /\ UNCHANGED <<flagVars, layoutVars, viewVars, chromeVars, serverVars, initVars, worldVars, simpleArrays, simpleAssets>>

\* ------------------------------------------------------- AssetUploadService
\* the state the hooks read and write
Server ==
  [assetRows |-> assetRows, quotaUsageInBytes |-> quotaUsageInBytes, files |-> files,
   unlinking |-> unlinking, jobs |-> jobs]

\* how a call ends: it returns a hook response or throws
Returned(S, response) == [S |-> S, thrown |-> "none", status |-> 0, response |-> response]
Thrown(S, kind, status) == [S |-> S, thrown |-> kind, status |-> status, response |-> NoResponse]
HookResponse(reject, code, status) ==
  [RejectUpload |-> reject, StatusCode |-> code, status |-> status]

\* String.prototype.startsWith
startsWith(str, prefix) == IsPrefix(prefix, str)

\* StorageCore.getFolderLocation(StorageFolder.Upload, auth.user.id)
getFolderLocation == UserFolder

\* requireQuota throws
quotaExceeded(auth, size) ==
  /\ auth.quotaSizeInBytes # NullQuota
  /\ auth.quotaSizeInBytes < auth.quotaUsageInBytes + size

\* parseMetadata throws: JSON.parse fails, validateSync reports errors or the
\* file name is no asset
parseMetadataThrows(encodedAssetData) == encodedAssetData # "good"

\* void this.tryUnlink(path): the removal is started and not awaited
tryUnlink(S, id) == [S EXCEPT !.unlinking = @ \cup {id}]

\* fromChecksum: the bytes a checksum string stands for
fromChecksum(checksum) == [i \in 1..Len(checksum) |-> ByteOf[checksum[i]]]

\* headers[name]?.[0] on a header value, which is a string: its first
\* character; nothing (the empty sequence here) for a missing or empty value
firstOf(value) == IF value = <<>> THEN <<>> ELSE <<value[1]>>

\* assetRepository.getUploadAssetIdByChecksum; the fault makes it find nothing
getUploadAssetIdByChecksum(S, checksum) == {row.id : row \in {r \in S.assetRows : r.checksum = checksum}}

\* what assetRepository.create does with the row: the checksum constraint,
\* the primary key, or the fault injected
createOutcome(S, id, checksum, fault) ==
  IF \E row \in S.assetRows : row.checksum = checksum THEN "checksum"
  ELSE IF fault = "create" \/ \E row \in S.assetRows : row.id = id THEN "error"
  ELSE "ok"

\* lines 274-283: usage, exif, job, 201 CREATED
finishCreated(S, dto, fault) ==
  IF fault = "updateUsage" THEN Thrown(S, "Error", 0)
  ELSE LET S1 == [S EXCEPT !.quotaUsageInBytes = @ + dto.Size]
       IN IF fault = "upsertExif" THEN Thrown(S1, "Error", 0)
          ELSE IF fault = "queue" THEN Thrown(S1, "Error", 0)
          ELSE Returned([S1 EXCEPT !.jobs = @ \cup {dto.ID}],
                        HookResponse(FALSE, 201, "CREATED"))

\* line 257-268 when the error is no checksum constraint: the catch block
\* ends without throwing and the method goes on after the try statement
createFailed(S, dto, fault) == finishCreated(S, dto, fault)

\* handlePreFinish(auth, dto)
handlePreFinish(S, auth, dto, fault) ==
  IF ~startsWith(dto.Path.dir, getFolderLocation)
    THEN Thrown(S, "HttpException", 400)
  ELSE IF parseMetadataThrows(dto.AssetData)
    THEN Thrown(S, "HttpException", 400)
  ELSE IF quotaExceeded(auth, dto.Size)
    THEN Thrown(tryUnlink(S, dto.ID), "HttpException", 400)
  ELSE IF fault = "hashFile" \/ dto.ID \notin S.files
    THEN Thrown(tryUnlink(S, dto.ID), "Error", 0)
  ELSE IF fault = "utimes"
    THEN Thrown(tryUnlink(S, dto.ID), "Error", 0)
  ELSE LET checksum == ChecksumOf(dto.ID)
           created == createOutcome(S, dto.ID, checksum, fault)
       IN IF created = "ok"
            THEN finishCreated([S EXCEPT !.assetRows = @ \cup {[id |-> dto.ID, checksum |-> checksum]}],
                               dto, fault)
          ELSE IF created = "checksum"
            THEN IF fault = "getUploadAssetIdByChecksum"
                      \/ getUploadAssetIdByChecksum(S, checksum) = {}
                   THEN Thrown(tryUnlink(S, dto.ID), "HttpException", 500)
                   ELSE Returned(tryUnlink(S, dto.ID), HookResponse(FALSE, 200, "DUPLICATE"))
          ELSE createFailed(S, dto, fault)


\* handlePreCreate(auth, payload, headers)
handlePreCreate(S, auth, payload, fault) ==
  LET checksum == firstOf(payload.Checksum)
      existingId == IF checksum = <<>> \/ fault = "getUploadAssetIdByChecksum" THEN {}
                    ELSE getUploadAssetIdByChecksum(S, fromChecksum(checksum))
  IN IF existingId # {}
       THEN Returned(S, HookResponse(TRUE, 200, "DUPLICATE"))
     ELSE IF quotaExceeded(auth, payload.Size)
       THEN Thrown(S, "HttpException", 400)
     ELSE IF payload.AssetData = Null
       THEN Thrown(S, "HttpException", 400)
     ELSE IF parseMetadataThrows(payload.AssetData)
       THEN Thrown(S, "HttpException", 400)
     ELSE Returned(S, HookResponse(FALSE, 0, "ChangeFileInfo"))

\* ----------------------------------------------------- AssetUploadController
\* the payloads tusd posts to the hook endpoint; valid is what validateSync
\* finds for the event, and one event stands for those it rejects
InvalidEvent(payload) ==
  /\ payload.ID = "x" /\ payload.Path.dir = InsideDir /\ payload.Size = 4
  /\ payload.AssetData = "good" /\ payload.Checksum = <<>>
PreFinishPayloads ==
  {payload \in
     {[Type |-> "pre-finish", valid |-> v, ID |-> id, Path |-> [dir |-> d, base |-> id],
       Size |-> z, AssetData |-> a, Checksum |-> <<>>] :
        v \in BOOLEAN, id \in UploadIds, d \in UploadDirs, z \in UploadSizes,
        a \in EncodedAssetData} :
     payload.valid \/ InvalidEvent(payload)}
PreCreatePayloads ==
  {payload \in
     {[Type |-> "pre-create", valid |-> v, ID |-> "x", Path |-> [dir |-> InsideDir, base |-> "x"],
       Size |-> z, AssetData |-> a, Checksum |-> c] :
        v \in BOOLEAN, z \in UploadSizes, a \in {Null, "good", "garbled"},
        c \in {<<>>, ChecksumHeader}} :
     payload.valid \/ InvalidEvent(payload)}
OtherPayloads ==
  {[Type |-> "post-finish", valid |-> TRUE, ID |-> "x", Path |-> [dir |-> InsideDir, base |-> "x"],
    Size |-> 4, AssetData |-> "good", Checksum |-> <<>>]}
HookPayloads == PreFinishPayloads \cup PreCreatePayloads \cup OtherPayloads

\* authService.authenticate: the user record it returns, or what it throws
authenticate(S, quota, fault) ==
  IF fault = "authenticate401" THEN Thrown(S, "HttpException", 401)
  ELSE IF fault = "authenticate" THEN Thrown(S, "Error", 0)
  ELSE Returned(S, [quotaSizeInBytes |-> quota, quotaUsageInBytes |-> S.quotaUsageInBytes])

\* the try block of processHook (lines 46-73)
tryHook(S, payload, quota, fault) ==
  LET auth == authenticate(S, quota, fault)
  IN IF auth.thrown # "none" THEN auth
     ELSE IF payload.Type = "pre-create"
       THEN IF ~payload.valid THEN Thrown(S, "HttpException", 400)
            ELSE handlePreCreate(S, auth.response, payload, fault)
     ELSE IF payload.Type = "pre-finish"
       THEN IF ~payload.valid THEN Thrown(S, "HttpException", 400)
            ELSE handlePreFinish(S, auth.response, payload, fault)
     ELSE Thrown(S, "Error", 0)

\* mutation: every error is answered with status 500
catchHookAlways500(run) ==
  IF run.thrown # "none" THEN HookResponse(TRUE, 500, "none") ELSE run.response

\* the catch block of processHook (lines 74-80)
catchHook(run) ==
  IF run.thrown = "HttpException" THEN HookResponse(TRUE, run.status, "none")
  ELSE IF run.thrown = "Error" THEN HookResponse(TRUE, 500, "none")
  ELSE run.response

\* processHook(payload): the state it leaves and the response tusd receives
processHookRun(S, payload, quota, fault) ==
  LET run == tryHook(S, payload, quota, fault)
  IN [S |-> run.S, response |-> catchHook(run), thrown |-> run.thrown]

SetServer(S, response) ==
  /\ assetRows' = S.assetRows
  /\ quotaUsageInBytes' = S.quotaUsageInBytes
  /\ files' = S.files
  /\ unlinking' = S.unlinking
  /\ jobs' = S.jobs
  /\ hookResponse' = response

processHook(payload, quota, fault) ==
  /\ quotaUsageInBytes + payload.Size <= MaxUsage
  /\ \E run \in {processHookRun(Server, payload, quota, fault)} : SetServer(run.S, run.response)
  /\ UNCHANGED <<clientVars, tusdVars>>

\* tusd has received the last chunk of an upload and holds its file
tusdStoresUpload(id) ==
  /\ id \notin files
  /\ files' = files \cup {id}
  /\ UNCHANGED <<assetRows, quotaUsageInBytes, unlinking, jobs, hookResponse>>
  /\ UNCHANGED <<clientVars, tusdVars>>

\* storageRepository.unlink settles inside tryUnlink: the file is gone, or
\* the failure is logged
unlinkSettles(id, removed) ==
  /\ id \in unlinking
  /\ unlinking' = unlinking \ {id}
  /\ files' = IF removed THEN files \ {id} ELSE files
  /\ UNCHANGED <<assetRows, quotaUsageInBytes, jobs, hookResponse>>
  /\ UNCHANGED <<clientVars, tusdVars>>


\* ------------------------------------------------- onBootstrap, waitForTusd
\* what the socket of one connection attempt does first
SocketEvents == {"connect", "error", "timeout"}

\* mutation: a successful attempt does not end the loop
attemptSettledNoReturn(b, ready) == [b EXCEPT !.pc = "backoff"]

\* lines 166-170: return when ready, otherwise wait for the backoff
attemptSettled(b, ready) ==
  IF ready THEN [b EXCEPT !.pc = "started"] ELSE [b EXCEPT !.pc = "backoff"]

\* the loop header for (...; i < maxRetries; ...) and the throw after the loop
loopTest(b) ==
  IF b.i < b.maxRetries THEN [b EXCEPT !.pc = "connecting"] ELSE [b EXCEPT !.pc = "failed"]

\* onBootstrap up to its first await inside waitForTusd(socketPath, maxRetries)
onBootstrap(maxRetries) ==
  /\ bootstrap.pc = "idle"
  /\ bootstrap' = loopTest([pc |-> "idle", i |-> 0, maxRetries |-> maxRetries])
  /\ UNCHANGED <<attempts, clientVars, uploadVars>>

\* the promise of an attempt resolves: true from the connect callback, false
\* from the error and the timeout handlers
socketSettles(event) ==
  /\ bootstrap.pc = "connecting"
  /\ attempts' = Append(attempts, event)
  /\ bootstrap' = attemptSettled(bootstrap, event = "connect")
  /\ UNCHANGED <<clientVars, uploadVars>>

\* the backoff timer fires: i++ and the loop test
backoffElapses ==
  /\ bootstrap.pc = "backoff"
  /\ bootstrap' = loopTest([bootstrap EXCEPT !.i = @ + 1])
  /\ UNCHANGED <<attempts, clientVars, uploadVars>>


\* ------------------------------------------------------------ specifications
\* simple specification: a SimplePhotostreamManager whose host assigns asset
\* lists and loads its segment
NextSimple ==
  \/ \E assets \in SimpleAssetLists : setAssets(assets)
  \/ \E identifier \in SimpleIdentifiers : simpleLoadSegment(identifier)
  \/ simpleFetchResolves

SpecSimple == Init /\ [][NextSimple]_vars

\* upload specification: tusd stores uploads and posts hooks, removals settle
NextUpload ==
  \/ \E id \in UploadIds : tusdStoresUpload(id)
  \/ \E payload \in HookPayloads, quota \in QuotaSizes, fault \in Faults :
       processHook(payload, quota, fault)
  \/ \E id \in UploadIds, removed \in BOOLEAN : unlinkSettles(id, removed)

SpecUpload == Init /\ [][NextUpload]_vars

\* bootstrap specification: onBootstrap waits for the tusd socket
NextBootstrap ==
  \/ \E maxRetries \in 0..MaxRetries : onBootstrap(maxRetries)
  \/ \E event \in SocketEvents : socketSettles(event)
  \/ backoffElapses

SpecBootstrap == Init /\ [][NextBootstrap]_vars

\* every attempt settles (the socket connects, fails or reaches its timeout)
\* and the backoff timer fires
SpecBootstrapFair ==
  /\ SpecBootstrap
  /\ WF_vars(\E event \in SocketEvents : socketSettles(event))
  /\ WF_vars(backoffElapses)

\* loading specification: loads, pagination, failures, scans, scrolling,
\* viewport changes and removals under the default layout options
Next ==
  \/ \E offset \in ScrollOffsets : updateSlidingWindow(offset)
  \/ \E viewport \in LoadViewports : updateViewport(viewport)
  \/ initComplete
  \/ \E viewport \in LoadViewports : resumeUpdateViewport(viewport)
  \/ \E identifier \in 0..NumSegments, cancelable \in BOOLEAN : loadSegment(identifier, cancelable)
  \/ \E i \in 1..Len(network) : fetchSuccess(i)
  \/ \E i \in 1..Len(network) : fetchFailure(i)
  \/ \E s \in Segments : callLoadNextPage(s)
  \/ callUpdateIntersections
  \/ \E assetIds \in RemoveInputs : removeAssets(assetIds)

Spec == Init /\ [][Next]_vars

\* height specification: everything that changes a segment's height or the
\* header chrome (loads, removals, layout options, viewport changes)
NextHeights ==
  \/ \E cfg \in HeaderConfigs : setLayoutOptions(cfg)
  \/ \E offset \in ScrollOffsets : updateSlidingWindow(offset)
  \/ \E viewport \in LoadViewports : updateViewport(viewport)
  \/ initComplete
  \/ \E viewport \in LoadViewports : resumeUpdateViewport(viewport)
  \/ \E identifier \in Segments : loadSegment(identifier, TRUE)
  \/ \E i \in 1..Len(network) : fetchSuccess(i)
  \/ \E assetIds \in RemoveInputs : removeAssets(assetIds)
  \/ \E value \in TopSectionHeights : setTopSectionHeight(value)

SpecHeights == Init /\ [][NextHeights]_vars

\* layout specification: the manager's tunables, viewport, scroll offset and
\* lifecycle over segments that are never answered
NextLayout ==
  \/ \E cfg \in LayoutConfigs : setLayoutOptions(cfg)
  \/ \E offset \in ScrollOffsets : updateSlidingWindow(offset)
  \/ \E viewport \in Viewports : updateViewport(viewport)
  \/ initComplete
  \/ \E viewport \in Viewports : resumeUpdateViewport(viewport)
  \/ destroy
  \/ \E value \in TopSectionHeights : setTopSectionHeight(value)
  \/ callRefreshLayout

SpecLayout == Init /\ [][NextLayout]_vars

\* options specification: layout options of every shape over segments that
\* load their first pages, with scrolling and viewport changes
NextOptions ==
  \/ \E cfg \in LayoutConfigs : setLayoutOptions(cfg)
  \/ \E offset \in ScrollOffsets : updateSlidingWindow(offset)
  \/ \E viewport \in LoadViewports : updateViewport(viewport)
  \/ initComplete
  \/ \E viewport \in LoadViewports : resumeUpdateViewport(viewport)
  \/ \E i \in 1..Len(network) : fetchSuccess(i)

SpecOptions == Init /\ [][NextOptions]_vars

\* viewport specification: updateViewport calls with non-zero viewports on
\* a fresh manager, the init task they await and their resumptions, with
\* scrolling in between
CallViewports == [width : {300, 500}, height : {400, 800}]

NextViewport ==
  \/ \E offset \in ScrollOffsets : updateSlidingWindow(offset)
  \/ \E viewport \in CallViewports : updateViewport(viewport)
  \/ initComplete
  \/ \E viewport \in CallViewports : resumeUpdateViewport(viewport)

SpecViewport == Init /\ [][NextViewport]_vars

\* flag specification: the scrolling and suspendTransitions flags under
\* their setters, the viewport setters, updateViewport and the debounce timers
NextFlags ==
  \/ \E value \in BOOLEAN : setScrolling(value)
  \/ \E value \in BOOLEAN : setSuspendTransitions(value)
  \/ \E value \in ViewportHeights : assignViewportHeight(value)
  \/ \E value \in ViewportWidths : assignViewportWidth(value)
  \/ \E viewport \in LoadViewports : updateViewport(viewport)
  \/ initComplete
  \/ \E viewport \in LoadViewports : resumeUpdateViewport(viewport)
  \/ resetScrollingFires
  \/ resetSuspendTransitionsFires

SpecFlags == Init /\ [][NextFlags]_vars

\* the timers of the debounced resets expire when they are armed
SpecFlagsFair ==
  /\ SpecFlags
  /\ WF_vars(resetScrollingFires)
  /\ WF_vars(resetSuspendTransitionsFires)

\* paging specification: intersection scans (direct, by scrolling and by
\* viewport changes), loadNextPage calls and the outcomes of page requests
NextPaging ==
  \/ \E offset \in ScrollOffsets : updateSlidingWindow(offset)
  \/ \E viewport \in LoadViewports : updateViewport(viewport)
  \/ initComplete
  \/ \E viewport \in LoadViewports : resumeUpdateViewport(viewport)
  \/ \E i \in 1..Len(network) : fetchSuccess(i)
  \/ \E i \in 1..Len(network) : fetchFailure(i)
  \/ \E s \in Segments : callLoadNextPage(s)
  \/ callUpdateIntersections

SpecPaging == Init /\ [][NextPaging]_vars

\* ------------------------------------------------------------------ claims
\* requests of segment s in flight
InFlight(net, s) == Cardinality({i \in 1..Len(net) : net[i].seg = s})

\* the segment holding an id (0 when no segment holds it)
SegmentOf(ms, id) ==
  IF \E s \in Segments : id \in Range(ms[s].viewerAssets)
  THEN CHOOSE s \in Segments : id \in Range(ms[s].viewerAssets)
  ELSE 0

RECURSIVE Timeline(_, _)
\* all items in timeline order: segment order, then item order
Timeline(ms, s) ==
  IF s > NumSegments THEN <<>> ELSE ms[s].viewerAssets \o Timeline(ms, s + 1)

PositionOf(q, id) == CHOOSE i \in 1..Len(q) : q[i] = id

SumOfSegmentHeights == SumSeq([s \in Segments |-> months[s].height])

\* the tokens the backend hands out for segment s before the null token
ExpectedTokens(s) == [k \in 1..(PagesOf(s) - 1) |-> TokenOf[k + 1]]

Exhausted(seg) == isLoaded(seg) /\ seg.nextPage = Null

\* C1: after setLayoutOptions(config) returns, headerHeight, rowHeight and gap
\* all equal the values given (48, 235 and 12 for omitted ones).
C1_AllOptionsApplied ==
  [][\A cfg \in LayoutConfigs :
       setLayoutOptions(cfg) =>
         /\ headerHeight' = optionOr(cfg, "headerHeight", DefaultHeaderHeight)
         /\ rowHeight' = optionOr(cfg, "rowHeight", DefaultRowHeight)
         /\ gap' = optionOr(cfg, "gap", DefaultGap)]_vars

\* C2: a loadSegment call on a segment that is loading or loaded issues no
\* fetch; a call on any other segment issues one, and a segment never has
\* more than one fetch in flight.
C2_OneFetchPerLoad ==
  /\ [](\A s \in Segments :
          /\ InFlight(network, s) <= 1
          /\ months[s].loadState = "Loading" => InFlight(network, s) = 1)
  /\ [][\A s \in Segments, cancelable \in BOOLEAN :
          loadSegment(s, cancelable) =>
            /\ months[s].loadState \in {"Loading", "Loaded"} => network' = network
            /\ months[s].loadState \notin {"Loading", "Loaded"} =>
                 Len(network') = Len(network) + 1]_vars

\* a loadSegment caller awaits the one fetch of a segment that is loading
C2_Witness ==
  \E s \in Segments :
    months[s].loadState = "Loading" /\ months[s].awaited /\ InFlight(network, s) = 1

\* C3: retrieveLoadedRange(start, end) is empty whenever a segment from the
\* one holding start through the one holding end is not loaded, and it never
\* returns an item of a segment that is not loaded.
C3_EmptyUnlessAllLoaded ==
  \A startId \in BackendIds, endId \in BackendIds :
    LET range == retrieveLoadedRange(months, startId, endId)
        first == SegmentOf(months, startId)
        last == SegmentOf(months, endId)
    IN /\ (first # 0 /\ last # 0 /\ \E s \in first..last : ~isLoaded(months[s]))
            => range = <<>>
       /\ \A i \in 1..Len(range) : isLoaded(months[SegmentOf(months, range[i])])

\* C4: when every spanned segment is loaded, both ids are present and start
\* is at or before end, the range is exactly the run of the timeline from
\* start to end inclusive.
C4_ExactRun ==
  \A startId \in BackendIds, endId \in BackendIds :
    LET all == Timeline(months, 1)
        first == SegmentOf(months, startId)
        last == SegmentOf(months, endId)
    IN (/\ first # 0
        /\ last # 0
        /\ PositionOf(all, startId) <= PositionOf(all, endId)
        /\ \A s \in first..last : isLoaded(months[s]))
       => retrieveLoadedRange(months, startId, endId)
            = SubSeq(all, PositionOf(all, startId), PositionOf(all, endId))

\* a range that starts in one loaded segment and ends in the next
C4_Witness ==
  /\ \A s \in Segments : isLoaded(months[s])
  /\ \E startId \in BackendIds, endId \in BackendIds :
       /\ SegmentOf(months, startId) = 1
       /\ SegmentOf(months, endId) = 2
       /\ Len(retrieveLoadedRange(months, startId, endId)) >= 3

\* C5: removeAssets(ids) returns exactly the input ids held by no segment;
\* afterwards no segment holds an id of ids and every segment keeps its other
\* items in their order.
C5_RemoveAssets ==
  \A assetIds \in RemoveInputs :
    \A run \in {removeAssetsRun(World, assetIds, Manager)} :
    LET held == UNION {Range(months[s].viewerAssets) : s \in Segments}
    IN /\ run.result = FilterSeq(assetIds, Range(assetIds) \ held)
       /\ \A s \in Segments :
            /\ Range(run.W.months[s].viewerAssets) \cap Range(assetIds) = {}
            /\ run.W.months[s].viewerAssets
                 = FilterSeq(months[s].viewerAssets,
                             Range(months[s].viewerAssets) \ Range(assetIds))

\* the first segment lost the second item of its first page and kept the
\* items around it
C5_Witness ==
  /\ AssetId(1, 1, 2) \notin Range(months[1].viewerAssets)
  /\ Len(months[1].viewerAssets) >= 2
  /\ months[1].viewerAssets[1] = AssetId(1, 1, 1)
  /\ months[1].viewerAssets[2] = AssetId(1, 2, 1)

\* C6: the fetches triggered through loadNextPage are, in order, a prefix of
\* the tokens the backend handed out; once the null token has been received
\* they are exactly those tokens and no further fetch is issued.
C6_PagesFetchedOnce ==
  [][\A s \in Segments :
       /\ IsPrefix(nextPageLog'[s], ExpectedTokens(s))
       /\ Exhausted(months'[s]) => nextPageLog'[s] = ExpectedTokens(s)
       /\ Exhausted(months[s]) => InFlight(network', s) = 0]_vars

\* the first segment received the null token after two loadNextPage fetches
C6_Witness ==
  /\ Exhausted(months[1])
  /\ Len(nextPageLog[1]) = NumPages - 1
  /\ nextPageLog[1] = ExpectedTokens(1)

\* C7: on every fetch completion the items held before are a prefix of the
\* items held after.
C7_AppendOnly ==
  [][\A i \in 1..Len(network) :
       (fetchSuccess(i) \/ fetchFailure(i)) =>
         \A s \in Segments : IsPrefix(months[s].viewerAssets, months'[s].viewerAssets)]_vars

\* a second page was appended behind the first
C7_Witness ==
  \E s \in Segments :
    /\ Len(months[s].viewerAssets) > ItemsOnPage(1)
    /\ months[s].viewerAssets[Len(months[s].viewerAssets)] = AssetId(s, 2, 1)

\* C8: timelineHeight minus topSectionHeight is the sum of the heights of all
\* segments.
C8_TimelineHeight == timelineHeight - topSectionHeight = SumOfSegmentHeights

\* loaded segments of different heights under a non-zero header chrome
C8_Witness ==
  /\ topSectionHeight # 0
  /\ \A s \in Segments : isLoaded(months[s])
  /\ months[1].height # months[2].height
  /\ months[2].height > 0

\* C9: getMaxScroll() is topSectionHeight + bottomSectionHeight + the sum of
\* all segment heights - viewportHeight.
C9_MaxScroll ==
  getMaxScroll = topSectionHeight + bottomSectionHeight + SumOfSegmentHeights - viewportHeight

\* C10: after a fetch failed the segment is not left Loading, and a
\* loadNextPage for the failed page or a loadSegment issues a new fetch.
C10_RetryAfterFailure ==
  \A s \in Segments :
    months[s].loadState = "Failed" =>
      /\ InFlight(network, s) = 0
      /\ InFlight(load(World, s).network, s) = 1
      /\ months[s].currentPage # InitialPage
           => InFlight(loadNextPage(World, s).network, s) = 1

\* C11: when destroy() is called while the init task is in flight, the later
\* completion of the task leaves isInitialized false.
C11_DestroyedStaysUninitialized ==
  initTask = "loading" => ~initTaskSettles(destroyRun(Lifecycle)).isInitialized

\* the flags a scan leaves on segment s under manager fields m
ScanFlags(ms, s, m) ==
  LET top == m.topSectionHeight + SumSeq([j \in 1..(s - 1) |-> ms[j].height])
      bottom == top + ms[s].height
  IN [intersecting |-> /\ top < m.scrollTop + m.viewportHeight + INTERSECTION_EXPAND_BOTTOM
                       /\ bottom > m.scrollTop - INTERSECTION_EXPAND_TOP,
      actuallyIntersecting |-> /\ top < m.scrollTop + m.viewportHeight
                               /\ bottom > m.scrollTop]

\* every segment carries the flags of a scan under m
Scanned(ms, m) ==
  \A s \in Segments :
    /\ ms[s].intersecting = ScanFlags(ms, s, m).intersecting
    /\ ms[s].actuallyIntersecting = ScanFlags(ms, s, m).actuallyIntersecting

\* every segment carries the geometry of its items under m
Recomputed(ms, m) ==
  \A s \in Segments : ms[s].isHeightActual /\ ms[s].height = layout(ms[s], m).height

\* C12: on an initialized manager, updateViewport with a changed width leaves
\* every segment with its geometry recomputed for the new width and the flags
\* of a scan; with only the height changed it leaves every segment's height
\* as it was and the flags of a scan; with unchanged dimensions or (0,0) it
\* changes nothing.
C12_ViewportFrame ==
  (isInitialized /\ initTask = "executed") =>
    \A viewport \in Viewports :
      \A st \in {[m |-> Manager, W |-> World]} :
      \A run \in {updateViewportRun(st, viewport)} :
         IF \/ viewport.width = 0 /\ viewport.height = 0
            \/ viewport.width = viewportWidth /\ viewport.height = viewportHeight
         THEN run = st
         ELSE IF viewport.width # viewportWidth
         THEN Recomputed(run.W.months, run.m) /\ Scanned(run.W.months, run.m)
         ELSE /\ \A s \in Segments : run.W.months[s].height = months[s].height
              /\ Scanned(run.W.months, run.m)

\* C13: updateSlidingWindow(s) with s equal to the scroll offset changes
\* nothing; with another s it makes the visible window [s, s + viewportHeight],
\* leaves every segment's items and geometry as they were and, on an
\* initialized manager with a non-empty window, leaves the flags of a scan.
C13_SlidingWindowFrame ==
  \A offset \in ScrollOffsets :
    \A st \in {[m |-> Manager, W |-> World]} :
    \A run \in {updateSlidingWindowRun(st, offset)} :
       IF offset = scrollTop
       THEN run = st
       ELSE /\ run.m = [Manager EXCEPT !.scrollTop = offset]
            /\ visibleWindowOf(run.m) = [top |-> offset, bottom |-> offset + viewportHeight]
            /\ \A s \in Segments :
                 /\ run.W.months[s].height = months[s].height
                 /\ run.W.months[s].isHeightActual = months[s].isHeightActual
                 /\ run.W.months[s].viewerAssets = months[s].viewerAssets
            /\ (isInitialized /\ viewportHeight # 0) => Scanned(run.W.months, run.m)
            /\ ~isInitialized => run.W = World

\* the window was scrolled onto the second segment, which a scan then flagged
C13_Witness ==
  /\ scrollTop # 0
  /\ isInitialized
  /\ viewportHeight # 0
  /\ months[2].actuallyIntersecting
  /\ ~ScanFlags(months, 2, [Manager EXCEPT !.scrollTop = 0]).actuallyIntersecting

\* C14: whichever segment callbacks call updateIntersections during a scan, at
\* most one scan is active at any time, the calls made during the scan visit
\* no segment, and the scan leaves what a scan without such calls leaves.
C14_ScansNeverNest ==
  \A reenter \in SUBSET Segments :
    \A sc \in {updateIntersectionsScan(ScanState(World), Manager, reenter)} :
       /\ sc.maxActive <= 1
       /\ sc.visits \in {0, NumSegments}
       /\ sc.active = 0
       /\ ~sc.updating
       /\ sc.W = updateIntersections(World, Manager)

\* a scan that visits every segment while every callback calls
\* updateIntersections again changes the flags of the second segment
C14_Witness ==
  LET sc == updateIntersectionsScan(ScanState(World), Manager, Segments)
  IN /\ isInitialized
     /\ sc.visits = NumSegments
     /\ sc.maxActive = 1
     /\ sc.W.months[2].intersecting # months[2].intersecting

\* pages of segment s with a request in flight
PagesInFlight(net, s) == {net[i].page : i \in {j \in 1..Len(net) : net[j].seg = s}}

\* pages of segment s of which the segment holds an item
PagesHeld(ms, s) ==
  {p \in 1..PagesOf(s) : \E k \in 1..ItemsOnPage(p) : AssetId(s, p, k) \in Range(ms[s].viewerAssets)}

\* the page whose request was rejected last, while the segment is failed
PagesFailed(ms, s) ==
  IF ms[s].loadState = "Failed" THEN {toNumber(ms[s].currentPage)} ELSE {}

\* C15: a segment never has more than one page request in flight, and a
\* request is never issued for a page that was requested before (a page in
\* flight, a page whose items are held, or the page whose request failed).
C15_NoTokenTwice ==
  /\ [](\A s \in Segments :
          /\ InFlight(network, s) <= 1
          /\ PagesInFlight(network, s) \cap PagesHeld(months, s) = {})
  /\ [][\A s \in Segments :
          (PagesInFlight(network', s) \ PagesInFlight(network, s))
            \cap (PagesHeld(months, s) \cup PagesFailed(months, s)) = {}]_vars

\* C15 (amended): a segment never has more than one page request in flight,
\* and a request is never issued for a page that is in flight or has been
\* answered; a page whose request was rejected may be requested again.
C15_NoAnsweredTokenTwice ==
  /\ [](\A s \in Segments :
          /\ InFlight(network, s) <= 1
          /\ PagesInFlight(network, s) \cap PagesHeld(months, s) = {})
  /\ [][\A s \in Segments :
          (PagesInFlight(network', s) \ PagesInFlight(network, s))
            \cap PagesHeld(months, s) = {}]_vars

\* the first segment holds its first two pages and has asked for the third
C15_Witness ==
  /\ PagesHeld(months, 1) = {1, 2}
  /\ PagesInFlight(network, 1) = {NumPages}
  /\ InFlight(network, 1) = 1

FlagPairs == [intersecting : BOOLEAN, actuallyIntersecting : BOOLEAN]

\* C16: updateIntersection on a paginated segment records the two flags it is
\* given and calls loadNextPage exactly when timelineHeight minus the bottom of
\* the visible window is below the bottom margin, whatever the flags are.
C16_LoadNextPageNearBottom ==
  \A s \in Segments, flags \in FlagPairs :
    \A recorded \in {baseUpdateIntersection(World, s, flags)} :
    \A after \in {updateIntersection(World, s, flags, Manager)} :
       /\ after.months[s].intersecting = flags.intersecting
       /\ after.months[s].actuallyIntersecting = flags.actuallyIntersecting
       /\ after = IF timelineHeight - visibleWindow.bottom < INTERSECTION_EXPAND_BOTTOM
                  THEN loadNextPage(recorded, s)
                  ELSE recorded

\* near the bottom of the timeline a segment told that it intersects nothing
\* asks for its next page; away from the bottom it would not
C16_Witness ==
  \E s \in Segments :
    LET flags == [intersecting |-> FALSE, actuallyIntersecting |-> FALSE]
        after == updateIntersection(World, s, flags, Manager)
    IN /\ timelineHeight - visibleWindow.bottom < INTERSECTION_EXPAND_BOTTOM
       /\ timelineHeight - visibleWindow.top >= INTERSECTION_EXPAND_BOTTOM
       /\ InFlight(network, s) = 0
       /\ InFlight(after.network, s) = 1
       /\ after.months[s].currentPage = months[s].nextPage

\* C17: setLayoutOptions calls refreshLayout, which leaves every segment's
\* geometry recomputed and (on an initialized manager with a non-empty window)
\* the flags of a scan, exactly when one of the three values differs from the
\* current one; a call whose three values equal the current ones changes
\* nothing.
C17_RefreshIffDiffers ==
  \A cfg \in LayoutConfigs :
    LET st == [m |-> Manager, W |-> World]
        run == setLayoutOptionsRun(st, cfg)
        differs == \/ optionOr(cfg, "headerHeight", DefaultHeaderHeight) # headerHeight
                   \/ optionOr(cfg, "rowHeight", DefaultRowHeight) # rowHeight
                   \/ optionOr(cfg, "gap", DefaultGap) # gap
    IN /\ run.refreshed = differs
       /\ differs =>
            /\ run.W = refreshLayout(World, run.m)
            /\ Recomputed(run.W.months, run.m)
            /\ (isInitialized /\ viewportHeight # 0) => Scanned(run.W.months, run.m)
       /\ ~differs => (run.m = Manager /\ run.W = World)

\* a header height other than the default with every segment laid out for it
C17_Witness ==
  /\ headerHeight # DefaultHeaderHeight
  /\ rowHeight = DefaultRowHeight
  /\ isInitialized
  /\ Recomputed(months, Manager)
  /\ \E s \in Segments : isLoaded(months[s])

\* the geometry and the flags of every segment
GeometryOf(ms) ==
  [s \in Segments |-> <<ms[s].height, ms[s].isHeightActual,
                        ms[s].intersecting, ms[s].actuallyIntersecting>>]

\* C18: under updateViewport calls with non-zero viewports on a fresh manager
\* the init task goes from idle to loading to executed and never back, a call
\* that finds it loading waits, no geometry or flag of a segment changes while
\* isInitialized is false, and a call stores its viewport (resolves) only on
\* an initialized manager.
C18_InitOnce ==
  /\ [](isInitialized <=> initTask = "executed")
  /\ [][/\ initTask = "loading" => initTask' \in {"loading", "executed"}
        /\ initTask = "executed" => initTask' = "executed"
        /\ \A viewport \in CallViewports :
             (updateViewport(viewport) /\ initTask = "loading") =>
               (viewport \in waiting' /\ isInitialized' = isInitialized
                /\ viewportWidth' = viewportWidth /\ viewportHeight' = viewportHeight)
        /\ ~isInitialized => GeometryOf(months') = GeometryOf(months)
        /\ (viewportWidth' # viewportWidth \/ viewportHeight' # viewportHeight
            \/ (waiting' \subseteq waiting /\ waiting' # waiting))
             => (isInitialized /\ isInitialized')]_vars

\* every call that waited for the init task has resolved on the initialized
\* manager, and the segments were laid out and scanned
C18_Witness ==
  /\ initTask = "executed"
  /\ isInitialized
  /\ waiting = {}
  /\ viewportWidth # 0
  /\ Recomputed(months, Manager)
  /\ Scanned(months, Manager)
  /\ InFlight(network, 1) = 1

\* the assets behind the items of a segment, in order
AssetsOf(segment) == [i \in 1..Len(segment.viewerAssets) |-> segment.viewerAssets[i].asset]

\* C19: a SimplePhotostreamManager exposes exactly one segment, with id 'one'
\* and matched by every identifier, and after an assignment of a list A to
\* manager.assets the items of that segment are the elements of A in order.
C19_SimpleSegment ==
  /\ Len(simpleMonths) = 1
  /\ simpleMonths[1].id = "one"
  /\ \A identifier \in SimpleIdentifiers : simpleMatches(identifier, simpleMonths[1])
  /\ simpleAssets # InitialArray => AssetsOf(simpleMonths[1]) = simpleArrays[simpleAssets]

\* C20: whenever the scrolling flag or the suspendTransitions flag is true, a
\* debounced reset of it is armed.
C20_ResetArmed ==
  /\ scrolling => resetScrollingArmed
  /\ suspendTransitions => resetSuspendTransitionsArmed

\* C20, the consequence drawn from it: with the debounce timers expiring
\* whenever they are armed, a flag that is true becomes false again.
C20_FlagsFallBack ==
  /\ scrolling ~> ~scrolling
  /\ suspendTransitions ~> ~suspendTransitions

\* the segments that hold at least one of the ids
Losers(ms, assetIds) ==
  {s \in Segments : Range(ms[s].viewerAssets) \cap Range(assetIds) # {}}

\* C21: removeAssets(ids) calls layout() on exactly the segments that held at
\* least one of the ids; a segment holding none of them keeps its items and
\* is not laid out, and when no segment holds any of them nothing is laid out
\* and the viewport geometry is not refreshed (the state is left as it was).
C21_LayoutOnlyLosers ==
  \A assetIds \in RemoveInputs :
    \A run \in {removeAssetsRun(World, assetIds, Manager)} :
      /\ run.laidOut = Losers(months, assetIds)
      /\ \A s \in Segments \ Losers(months, assetIds) :
           run.W.months[s].viewerAssets = months[s].viewerAssets
      /\ Losers(months, assetIds) = {} => run.W = World

\* the user record authenticate hands to a hook
AuthOf(quota) == [quotaSizeInBytes |-> quota, quotaUsageInBytes |-> quotaUsageInBytes]
\* the validated pre-finish events
PreFinishEvents == {payload \in PreFinishPayloads : payload.valid}

\* C22: handlePreFinish answers 201 CREATED, adds the upload size to the
\* user's usage and queues the metadata-extraction job only when
\* assetRepository.create stored the asset row: whenever create fails, the
\* response is not CREATED, the usage is as before and no job was queued.
C22_CreatedOnlyIfStored ==
  \A dto \in PreFinishEvents, quota \in QuotaSizes, fault \in Faults :
    \A run \in {handlePreFinish(Server, AuthOf(quota), dto, fault)} :
      (\/ run.response.status = "CREATED"
       \/ run.S.quotaUsageInBytes # quotaUsageInBytes
       \/ run.S.jobs # jobs)
        => \E row \in run.S.assetRows \ assetRows : row.id = dto.ID

\* the directory is the folder or lies below it
insideFolder(dir, folder) == dir = folder \/ startsWith(dir, folder \o <<"/">>)

\* C23: when handlePreFinish ends without having stored an asset row for an
\* uploaded file inside the user's upload folder, a removal of the file has been
\* started and the usage is as before; when the file is outside the folder
\* the call throws an HttpException and leaves files and database as they were.
C23_FailedUploadRemoved ==
  \A dto \in {d \in PreFinishEvents : d.ID \in files}, quota \in QuotaSizes, fault \in Faults :
    \A run \in {handlePreFinish(Server, AuthOf(quota), dto, fault)} :
      /\ (/\ insideFolder(dto.Path.dir, getFolderLocation)
          /\ ~\E row \in run.S.assetRows \ assetRows : row.id = dto.ID)
           => (dto.ID \in run.S.unlinking /\ run.S.quotaUsageInBytes = quotaUsageInBytes)
      /\ ~insideFolder(dto.Path.dir, getFolderLocation)
           => (run.thrown = "HttpException" /\ run.S = Server)

\* C24: waitForTusd makes at most maxRetries connection attempts and none
\* after a successful one; it has returned (onBootstrap has completed) exactly
\* when the last attempt connected, it has thrown only after maxRetries
\* attempts that all failed, and once started it always returns or throws.
C24_WaitForTusdTerminates ==
  /\ [](/\ Len(attempts) <= bootstrap.maxRetries
        /\ \A k \in 1..(Len(attempts) - 1) : attempts[k] # "connect"
        /\ bootstrap.pc = "started"
             <=> (attempts # <<>> /\ attempts[Len(attempts)] = "connect")
        /\ bootstrap.pc = "failed"
             => (/\ Len(attempts) = bootstrap.maxRetries
                 /\ \A k \in 1..Len(attempts) : attempts[k] # "connect"))
  /\ (bootstrap.pc \in {"connecting", "backoff"}) ~> (bootstrap.pc \in {"started", "failed"})

\* waitForTusd returned at the third attempt, after an error and a timeout
C24_Witness ==
  /\ bootstrap.pc = "started"
  /\ bootstrap.maxRetries >= 3
  /\ attempts = <<"error", "timeout", "connect">>

\* waitForTusd threw after maxRetries failed attempts
C24_WitnessThrown ==
  /\ bootstrap.pc = "failed"
  /\ bootstrap.maxRetries >= 2
  /\ Len(attempts) = bootstrap.maxRetries

\* authentication succeeded and the event passed validateSync in a case of
\* the switch
Admitted(payload, fault) ==
  /\ fault \notin {"authenticate401", "authenticate"}
  /\ payload.Type \in {"pre-create", "pre-finish"}
  /\ payload.valid

\* C25: processHook answers every hook with a hook response.  A failed
\* authentication is answered with RejectUpload and the status of its
\* HttpException (500 when it is another error), an unhandled hook type with
\* RejectUpload and 500, an invalid event with RejectUpload and 400, an error
\* thrown by the upload service with RejectUpload and its status when it is
\* an HttpException and 500 otherwise; a response without RejectUpload is
\* given only after authentication and validation succeeded.
C25_HookAlwaysAnswered ==
  \A payload \in HookPayloads, quota \in QuotaSizes, fault \in Faults :
    \A run \in {processHookRun(Server, payload, quota, fault)} :
      \A service \in {IF payload.Type = "pre-create"
                        THEN handlePreCreate(Server, AuthOf(quota), payload, fault)
                        ELSE handlePreFinish(Server, AuthOf(quota), payload, fault)} :
        /\ fault = "authenticate401" => run.response = HookResponse(TRUE, 401, "none")
        /\ fault = "authenticate" => run.response = HookResponse(TRUE, 500, "none")
        /\ (fault \notin {"authenticate401", "authenticate"} /\ payload.Type = "post-finish")
             => run.response = HookResponse(TRUE, 500, "none")
        /\ (fault \notin {"authenticate401", "authenticate"} /\ payload.Type # "post-finish"
            /\ ~payload.valid)
             => run.response = HookResponse(TRUE, 400, "none")
        /\ (Admitted(payload, fault) /\ service.thrown = "HttpException")
             => run.response = HookResponse(TRUE, service.status, "none")
        /\ (Admitted(payload, fault) /\ service.thrown = "Error")
             => run.response = HookResponse(TRUE, 500, "none")
        /\ ~run.response.RejectUpload => Admitted(payload, fault)
        /\ ~Admitted(payload, fault) => run.S = Server

\* a pre-finish hook whose file could not be hashed was answered with a
\* rejection of status 500 after the removal of the file was started, and the
\* usage shows that an earlier hook was accepted
C25_Witness ==
  /\ hookResponse = HookResponse(TRUE, 500, "none")
  /\ unlinking # {}
  /\ assetRows # {}
  /\ quotaUsageInBytes > 0

====
